---- MODULE Spec2Model ----
(***************************************************************************)
(* ComponentTransitionAnimation.tsx as a state machine.                    *)
(*                                                                         *)
(* The component keeps two state cells (delayedStep, opacity), receives    *)
(* the props components / currentStep / transitionDuration, runs one       *)
(* passive effect (queueDelayedStep(currentStep)) whenever currentStep or  *)
(* the memoised callback (deps delayedStep, transitionDuration_) changes,  *)
(* and every call of queueDelayedStep that passes the equality check       *)
(* leaves one timer behind whose continuation commits the captured step.   *)
(*                                                                         *)
(* Numbers.  currentStep is a JavaScript number, not necessarily whole, so *)
(* a step value x is represented by the integer 2x (Num(1) is the step 1,  *)
(* Num(1) + 1 the step 1.5).  Times are whole milliseconds and the         *)
(* durations are even, so that half a duration is a whole millisecond.     *)
(*                                                                         *)
(* React.  A render is synchronous with the change that causes it, so a    *)
(* state of the model is what a render observes.  The effect of a render   *)
(* runs before React processes any later update, so no prop change, timer  *)
(* or clock step is taken while it is pending.  Whether the two setState   *)
(* calls after the await (lines 62-63) reach the screen in one render      *)
(* depends on the root the component is mounted in: a root with automatic  *)
(* batching renders once, any other root renders after each call.  The     *)
(* component does not choose its root, so batching is fixed at mount to    *)
(* either value.  The model covers the mounted lifetime of one instance.   *)
(***************************************************************************)
EXTENDS Integers, Sequences, FiniteSets, TLC

VARIABLES
  currentStep,         \* prop: the step the caller asks for (as of the last render)
  transitionDuration,  \* prop: [given, ms]; given = FALSE when omitted
  batching,            \* does the React root batch the two updates of a commit
  delayedStep,         \* state cell: the step on screen
  opacity,             \* state cell: 0 or 1
  timers,              \* pending delay() timers, in creation order
  effectPending,       \* the effect of the last render has not run yet
  trigger,             \* what made the effect pending
  pc,                  \* "idle", or "commit": between line 62 and line 63
  nreq,                \* history: number of currentStep changes so far
  ndur,                \* history: number of transitionDuration changes so far
  fadedFor,            \* history: ms since opacity last went from 1 to 0
  lastFired,           \* history: the last timer that fired
  left,                \* how many more times the caller will change a prop
  created,             \* history: number of timers created so far
  partTick,            \* the last step was a Tick that stopped short of a due time
  reqLog               \* history: one record per currentStep change

vars == <<currentStep, transitionDuration, batching, delayedStep,
          opacity, timers, effectPending, trigger, pc, nreq, ndur, fadedFor,
          lastFired, left, created, partTick, reqLog>>

----------------------------------------------------------------------------
(* Bounds and input domains *)

\* how many times the caller changes a prop (currentStep or transitionDuration)
MaxPropChanges == 2

Num(i) == 2 * i

\* -1, 0, 1 and 1.5
StepValues == {Num(-1), Num(0), Num(1), Num(1) + 1}

WholeSteps == {x \in StepValues : x % 2 = 0}

Omitted == [given |-> FALSE, ms |-> 0]
Given(ms) == [given |-> TRUE, ms |-> ms]
DurationValues == {Omitted, Given(-2), Given(0), Given(4)}

\* only the returned tree reads the prop components, whatever list the caller
\* passes: it is an argument of Rendered and not a variable
ComponentLists == {<< >>, <<"A">>, <<"A", "B">>, <<"A", "B", "C">>}

----------------------------------------------------------------------------
(* Pure parts of the component *)

DefaultDuration == 1000

\* currentStep | 0 : truncation toward zero (inputs stay inside int32)
ToInt32(x) == IF x >= 0 THEN 2 * (x \div 2) ELSE -(2 * ((-x) \div 2))

\* mutant: the duration is not halved
transitionDuration_NotHalved(d) ==
  IF d.given /\ d.ms # 0 THEN d.ms ELSE DefaultDuration

\* mutant: an omitted duration is taken as 0 instead of the default
transitionDuration_NoDefault(d) == (IF d.given THEN d.ms ELSE 0) \div 2

\* (transitionDuration || 1000) / 2 : undefined and 0 are both falsy
transitionDuration_(d) ==
  (IF d.given /\ d.ms # 0 THEN d.ms ELSE DefaultDuration) \div 2

\* transition: `opacity ${transitionDuration_}ms ...` : how long the rendered
\* wrapper takes to fade to a new opacity
opacityTransitionMs == transitionDuration_(transitionDuration)

\* setTimeout(resolve, ms): a negative timeout is a timeout of 0
delay(ms) == IF ms < 0 THEN 0 ELSE ms

\* mutant: the filter is off by one
RECURSIVE filter_OffByOne(_, _, _)
filter_OffByOne(list, index, step) ==
  IF index >= Len(list) THEN << >>
  ELSE (IF Num(index + 1) = step THEN <<list[index + 1]>> ELSE << >>)
       \o filter_OffByOne(list, index + 1, step)

\* components.filter((_, index) => index === delayedStep)
RECURSIVE filter(_, _, _)
filter(list, index, step) ==
  IF index >= Len(list) THEN << >>
  ELSE (IF Num(index) = step THEN <<list[index + 1]>> ELSE << >>)
       \o filter(list, index + 1, step)

\* the items of the returned tree, for the prop components
Rendered(components) == filter(components, 0, delayedStep)

----------------------------------------------------------------------------
(* Timers *)

NoTimer == [id |-> 0, step |-> Num(0), wait |-> 0, elapsed |-> 0, dur |-> Omitted,
            trigger |-> "none", idle0 |-> FALSE, d0 |-> Num(0), req |-> 0,
            durs |-> 0]

Due(t) == t.elapsed >= t.wait

DueIndexes == {i \in 1..Len(timers) : Due(timers[i])}

\* the timer queue runs due timers in creation order
FirstDue == CHOOSE i \in DueIndexes : \A j \in DueIndexes : i <= j

Remove(seq, i) == SubSeq(seq, 1, i - 1) \o SubSeq(seq, i + 1, Len(seq))

Min(S) == CHOOSE m \in S : \A n \in S : m <= n

Remaining == Min({timers[i].wait - timers[i].elapsed : i \in 1..Len(timers)})

\* how far the clock may move in one step: to the next due time, or half way
\* there (two Ticks in a row are one Tick of their sum, so the second goes
\* all the way)
TickChoices ==
  IF partTick THEN {Remaining} ELSE {Remaining, (Remaining + 1) \div 2}

Idle == timers = << >> /\ opacity = 1 /\ pc = "idle"

----------------------------------------------------------------------------
(* Initial state: after the first render, before the first effect run *)

Mount ==
  /\ delayedStep = ToInt32(currentStep)
  /\ opacity = 1
  /\ timers = << >>
  /\ effectPending = TRUE
  /\ trigger = "mount"
  /\ pc = "idle"
  /\ nreq = 0
  /\ ndur = 0
  /\ fadedFor = 0
  /\ lastFired = NoTimer
  /\ created = 0
  /\ partTick = FALSE
  /\ reqLog = << >>

Init ==
  /\ currentStep \in StepValues
  /\ transitionDuration \in DurationValues
  /\ batching \in BOOLEAN
  /\ left = MaxPropChanges
  /\ Mount

\* the inputs the documented contract names: whole-number steps, a positive
\* or omitted duration that does not change, a root that batches updates
ContractInit ==
  /\ currentStep \in WholeSteps
  /\ transitionDuration \in {Omitted, Given(4)}
  /\ batching = TRUE
  /\ left = MaxPropChanges + 1
  /\ Mount

----------------------------------------------------------------------------
(* Actions *)

\* the caller re-renders the component with another currentStep
SetCurrentStep(s) ==
  /\ pc = "idle"
  /\ ~effectPending
  /\ left > 0
  /\ left' = left - 1
  /\ s # currentStep
  /\ currentStep' = s
  /\ effectPending' = TRUE
  /\ trigger' = "step"
  /\ nreq' = nreq + 1
  /\ reqLog' = Append(reqLog, [step |-> s, ds |-> delayedStep, idle |-> Idle,
                               pending |-> Len(timers),
                               due |-> DueIndexes # {}])
  /\ partTick' = FALSE
  /\ UNCHANGED <<transitionDuration, batching, delayedStep,
                 opacity, timers, pc, ndur, fadedFor, lastFired, created>>

\* the caller re-renders the component with another transitionDuration
SetTransitionDuration(d) ==
  /\ pc = "idle"
  /\ ~effectPending
  /\ left > 0
  /\ left' = left - 1
  /\ d # transitionDuration
  /\ transitionDuration' = d
  /\ ndur' = ndur + 1
  /\ IF transitionDuration_(d) # transitionDuration_(transitionDuration)
       THEN effectPending' = TRUE /\ trigger' = "duration"
       ELSE UNCHANGED <<effectPending, trigger>>
  /\ partTick' = FALSE
  /\ UNCHANGED <<currentStep, batching, delayedStep, opacity,
                 timers, pc, nreq, fadedFor, lastFired, created, reqLog>>

NewTimer(step) ==
  [id |-> created + 1,
   step |-> step,
   wait |-> delay(transitionDuration_(transitionDuration)),
   elapsed |-> 0,
   dur |-> transitionDuration,
   trigger |-> trigger,
   idle0 |-> Idle,
   d0 |-> delayedStep,
   req |-> nreq,
   durs |-> ndur]

\* mutant: the equality check of line 55 is missing
queueDelayedStep_NoCheck(step) ==
  /\ opacity' = 0
  /\ created' = created + 1
  /\ fadedFor' = IF opacity = 0 THEN fadedFor ELSE 0
  /\ timers' = Append(timers, NewTimer(step))

\* mutant: a new request cancels the commits that are pending
queueDelayedStep_Cancelling(step) ==
  IF step = delayedStep
    THEN UNCHANGED <<opacity, timers, fadedFor, created>>
    ELSE /\ opacity' = 0
         /\ created' = created + 1
         /\ fadedFor' = IF opacity = 0 THEN fadedFor ELSE 0
         /\ timers' = <<NewTimer(step)>>

\* mutant: an equal step ends the fade and drops the commits that are pending
queueDelayedStep_ResetOnEqual(step) ==
  IF step = delayedStep
    THEN /\ opacity' = 1
         /\ timers' = << >>
         /\ fadedFor' = 0
         /\ UNCHANGED created
    ELSE /\ opacity' = 0
         /\ created' = created + 1
         /\ fadedFor' = IF opacity = 0 THEN fadedFor ELSE 0
         /\ timers' = Append(timers, NewTimer(step))

\* queueDelayedStep(step), up to the await
queueDelayedStep(step) ==
  IF step = delayedStep
    THEN UNCHANGED <<opacity, timers, fadedFor, created>>
    ELSE /\ opacity' = 0
         /\ created' = created + 1
         /\ fadedFor' = IF opacity = 0 THEN fadedFor ELSE 0
         /\ timers' = Append(timers, NewTimer(step))

\* useEffect(() => { queueDelayedStep(currentStep) }, [currentStep, queueDelayedStep])
RunEffect ==
  /\ pc = "idle"
  /\ effectPending
  /\ queueDelayedStep(currentStep)
  /\ effectPending' = FALSE
  /\ trigger' = "none"
  /\ partTick' = FALSE
  /\ UNCHANGED <<currentStep, transitionDuration, batching,
                 delayedStep, pc, nreq, ndur, lastFired, left, reqLog>>

\* time passes by dt
Tick(dt) ==
  /\ timers' = [i \in 1..Len(timers) |->
                  [timers[i] EXCEPT !.elapsed = @ + dt]]
  /\ fadedFor' = IF opacity = 0 THEN fadedFor + dt ELSE 0
  /\ partTick' = (dt < Remaining)
  /\ UNCHANGED <<currentStep, transitionDuration, batching,
                 delayedStep, opacity, effectPending, trigger, pc, nreq, ndur,
                 lastFired, left, created, reqLog>>

\* the clock moves only while no handler, effect or due timer is waiting to run
Wait ==
  /\ pc = "idle"
  /\ ~effectPending
  /\ timers # << >>
  /\ DueIndexes = {}
  /\ \E dt \in TickChoices : Tick(dt)

\* mutant: the effect does not depend on delayedStep
AfterSetDelayedStep_NoRerun(step) == UNCHANGED <<effectPending, trigger>>

\* the render after delayedStep was set: the callback and the effect re-run
\* when delayedStep changed
AfterSetDelayedStep(step) ==
  IF step # delayedStep
    THEN effectPending' = TRUE /\ trigger' = "commit"
    ELSE UNCHANGED <<effectPending, trigger>>

\* mutant: a commit whose step is no longer the requested one is dropped
CommitBatched_DropStale(t) ==
  IF t.step # currentStep
    THEN /\ pc' = "idle"
         /\ UNCHANGED <<delayedStep, opacity, fadedFor, effectPending, trigger>>
    ELSE /\ delayedStep' = t.step
         /\ opacity' = 1
         /\ fadedFor' = 0
         /\ pc' = "idle"
         /\ AfterSetDelayedStep(t.step)

\* mutant: the commit does not restore the opacity
CommitBatched_NoFadeIn(t) ==
  /\ delayedStep' = t.step
  /\ pc' = "idle"
  /\ AfterSetDelayedStep(t.step)
  /\ UNCHANGED <<opacity, fadedFor>>

\* lines 62-63 with both updates applied in one render
CommitBatched(t) ==
  /\ delayedStep' = t.step
  /\ opacity' = 1
  /\ fadedFor' = 0
  /\ pc' = "idle"
  /\ AfterSetDelayedStep(t.step)

\* line 62 alone: setDelayedStep(step) is rendered before line 63 runs
CommitFirstHalf(t) ==
  /\ delayedStep' = t.step
  /\ pc' = "commit"
  /\ AfterSetDelayedStep(t.step)
  /\ UNCHANGED <<opacity, fadedFor>>

\* a due timer resolves its promise and the continuation of queueDelayedStep runs
FireTimer ==
  /\ pc = "idle"
  /\ ~effectPending
  /\ DueIndexes # {}
  /\ LET t == timers[FirstDue] IN
       /\ timers' = Remove(timers, FirstDue)
       /\ lastFired' = t
       /\ IF batching THEN CommitBatched(t) ELSE CommitFirstHalf(t)
  /\ partTick' = FALSE
  /\ UNCHANGED <<currentStep, transitionDuration, batching, nreq,
                 ndur, left, created, reqLog>>

\* line 63 when the updates are not batched: setOpacity(1)
ResumeCommit ==
  /\ pc = "commit"
  /\ opacity' = 1
  /\ fadedFor' = 0
  /\ pc' = "idle"
  /\ partTick' = FALSE
  /\ UNCHANGED <<currentStep, transitionDuration, batching,
                 delayedStep, timers, effectPending, trigger, nreq, ndur,
                 lastFired, left, created, reqLog>>

Next ==
  \/ \E s \in StepValues : SetCurrentStep(s)
  \/ \E d \in DurationValues : SetTransitionDuration(d)
  \/ RunEffect
  \/ Wait
  \/ FireTimer
  \/ ResumeCommit

Spec == Init /\ [][Next]_vars

ContractNext ==
  \/ \E s \in WholeSteps : SetCurrentStep(s)
  \/ RunEffect
  \/ Wait
  \/ FireTimer

ContractSpec == ContractInit /\ [][ContractNext]_vars

\* what the event loop does by itself; at most one of the four is enabled
EventLoop == RunEffect \/ Wait \/ FireTimer \/ ResumeCommit

\* the event loop runs every effect, due timer and continuation, and time passes
FairSpec == Spec /\ WF_vars(EventLoop)

----------------------------------------------------------------------------
(* Vocabulary of the properties *)

\* the total duration of one fade-out / fade-in cycle the caller asked for
TotalDuration(d) == IF d.given THEN d.ms ELSE DefaultDuration

\* the contract takes an optional positive duration
InContract(d) == ~d.given \/ d.ms > 0

\* t was scheduled by a currentStep change received in Idle, and no prop
\* has changed since
FromIdle(t) ==
  /\ t.trigger = "step"
  /\ t.idle0
  /\ t.req = nreq
  /\ t.durs = ndur
  /\ InContract(t.dur)

\* nothing is left to run
Quiescent == timers = << >> /\ ~effectPending /\ pc = "idle"

\* half the duration, as the timers of the current props wait it
HalfDuration == delay(transitionDuration_(transitionDuration))

----------------------------------------------------------------------------
(* C1: from Idle with displayed step d, a change of currentStep to s # d
   with total duration D and no later change puts visibility at 0 at once
   while the displayed step stays d, and exactly D/2 later the displayed
   step is s and visibility is 1. *)
C1_FadeThenCommit ==
  /\ \A i \in 1..Len(timers) :
       FromIdle(timers[i]) =>
         /\ Len(timers) = 1
         /\ opacity = 0
         /\ timers[i].step # timers[i].d0
         /\ delayedStep = timers[i].d0
         /\ 2 * timers[i].wait = TotalDuration(timers[i].dur)
         /\ timers[i].elapsed <= timers[i].wait
  /\ (FromIdle(lastFired) /\ pc = "idle") =>
         /\ timers = << >>
         /\ delayedStep = lastFired.step
         /\ currentStep = lastFired.step
         /\ opacity = 1
         /\ 2 * lastFired.elapsed = TotalDuration(lastFired.dur)

\* C1: a change received in Idle with duration 4 was committed after 2 ms
C1_Witness ==
  /\ FromIdle(lastFired)
  /\ pc = "idle"
  /\ lastFired.dur = Given(4)
  /\ lastFired.elapsed = 2
  /\ delayedStep = lastFired.step
  /\ delayedStep # lastFired.d0
  /\ opacity = 1

(* C2: once currentStep has stopped changing and every scheduled commit has
   fired, the displayed step is the last requested currentStep and
   visibility is 1, also when changes arrived while commits were pending. *)
C2_FinalState == Quiescent => (delayedStep = currentStep /\ opacity = 1)

\* C2: currentStep went to another step and straight back while a commit was
\* pending, and everything has fired
C2_Witness ==
  /\ Quiescent
  /\ nreq = 2
  /\ reqLog[2].pending > 0
  /\ reqLog[2].step = reqLog[1].ds
  /\ reqLog[1].step # reqLog[1].ds
  /\ delayedStep = reqLog[2].step
  /\ opacity = 1

(* C3, as claimed: the displayed step changes only after a full fade-out:
   whenever it changes, visibility was 0 just before and had been 0 for
   the whole half-duration wait of the commit that changes it. *)
C3_Original ==
  [][delayedStep' # delayedStep =>
       (opacity = 0 /\ fadedFor >= timers[FirstDue].wait)]_vars

(* C4, as claimed: visibility is 0 throughout the interval between a
   request and its commit and 1 in every other state; in particular it is
   0 whenever the processed currentStep differs from the displayed step. *)
C4_Original ==
  (pc = "idle" /\ ~effectPending) =>
    /\ (opacity = 0) <=> (timers # << >>)
    /\ (currentStep # delayedStep) => (opacity = 0)

(* C5, as claimed: whenever a currentStep equal to the displayed step is
   received, in any reachable state, visibility stays 1 and no timer is
   scheduled. *)
C5_Original ==
  [][(effectPending /\ trigger = "step" /\ currentStep = delayedStep) =>
       (opacity' = 1 /\ timers' = timers)]_vars

(* C5, amended: whenever a currentStep equal to the displayed step is
   received, in any reachable state, visibility is left as it was and no
   timer is scheduled. *)
C5_EqualStepNoTimer ==
  [][(effectPending /\ trigger = "step" /\ currentStep = delayedStep) =>
       (opacity' = opacity /\ timers' = timers /\ created' = created)]_vars

\* C5: an equal step was received and processed while a commit was pending
C5_Witness ==
  /\ nreq >= 1
  /\ reqLog[nreq].step = reqLog[nreq].ds
  /\ reqLog[nreq].pending > 0
  /\ currentStep = reqLog[nreq].step
  /\ ~effectPending
  /\ opacity = 0
  /\ Len(timers) = reqLog[nreq].pending

(* C6, as claimed: when a commit fires, its two mutations (displayed step
   becomes the captured step, visibility becomes 1) are observed together:
   the render that follows the firing shows both. *)
C6_Original ==
  [][Len(timers') < Len(timers) =>
       (delayedStep' = timers[FirstDue].step /\ opacity' = 1)]_vars

(* C7: a pending commit is never cancelled or replaced: a request that
   differs from the displayed step while a commit is pending adds a second
   commit, and every scheduled commit eventually fires and sets the
   displayed step to the step it captured. *)
C7_NeverCancelled ==
  /\ [][\A i \in 1..Len(timers) :
          \/ \E j \in 1..Len(timers') :
               /\ timers'[j].id = timers[i].id
               /\ timers'[j].step = timers[i].step
               /\ timers'[j].wait = timers[i].wait
          \/ /\ Due(timers[i])
             /\ lastFired' = timers[i]
             /\ delayedStep' = timers[i].step]_vars
  /\ [][(effectPending /\ pc = "idle" /\ currentStep # delayedStep) =>
          /\ Len(timers') = Len(timers) + 1
          /\ timers'[Len(timers')].step = currentStep
          /\ timers'[Len(timers')].elapsed = 0]_vars
  /\ []<>(timers = << >>)

\* C7: of two commits that two requests left pending together, the first has
\* fired and displayed its step, and the second is still pending
C7_Witness ==
  /\ pc = "idle"
  /\ timers # << >>
  /\ lastFired.trigger = "step"
  /\ timers[1].trigger = "step"
  /\ lastFired.req < timers[1].req
  /\ reqLog[timers[1].req].pending >= 1
  /\ reqLog[timers[1].req].ds = lastFired.d0
  /\ lastFired.step # timers[1].step
  /\ delayedStep = lastFired.step

\* Scenario C: from Idle with displayed step d, currentStep goes to another
\* step and back to d before the first half-duration has elapsed
ScenarioC ==
  /\ nreq = 2
  /\ ndur = 0
  /\ reqLog[1].idle
  /\ reqLog[1].step # reqLog[1].ds
  /\ reqLog[2].step = reqLog[1].ds
  /\ reqLog[2].ds = reqLog[1].ds
  /\ reqLog[2].pending = 1
  /\ ~reqLog[2].due

(* C8, as claimed: in Scenario C each of the two requests schedules its own
   delayed commit at the moment it is received (and both fire half the
   duration after their request). *)
C8_Original ==
  (ScenarioC /\ ~effectPending /\ lastFired.req = 0) =>
     \A r \in {1, 2} :
       \E i \in 1..Len(timers) :
         /\ timers[i].req = r
         /\ timers[i].trigger = "step"
         /\ timers[i].step = reqLog[r].step

(* C8, amended: in Scenario C only the first request schedules a commit when
   it is received; it fires half the duration later and displays the other
   step; the effect then re-runs and schedules a commit back to d, which
   fires half the duration later and leaves displayed step d, visibility 1. *)
C8_ScenarioC ==
  (ScenarioC /\ ~effectPending /\ pc = "idle") =>
     \/ /\ Len(timers) = 1
        /\ timers[1].req = 1
        /\ timers[1].trigger = "step"
        /\ timers[1].step = reqLog[1].step
        /\ timers[1].wait = HalfDuration
        /\ timers[1].elapsed <= timers[1].wait
        /\ delayedStep = reqLog[1].ds
        /\ opacity = 0
     \/ /\ lastFired.req = 1
        /\ lastFired.step = reqLog[1].step
        /\ lastFired.elapsed = HalfDuration
        /\ Len(timers) = 1
        /\ timers[1].trigger = "commit"
        /\ timers[1].step = reqLog[2].step
        /\ timers[1].wait = HalfDuration
        /\ timers[1].elapsed <= timers[1].wait
        /\ delayedStep = reqLog[1].step
        /\ opacity = 0
     \/ /\ lastFired.trigger = "commit"
        /\ lastFired.step = reqLog[2].step
        /\ lastFired.elapsed = HalfDuration
        /\ timers = << >>
        /\ delayedStep = reqLog[2].step
        /\ opacity = 1

\* C8: Scenario C has run to its end through the commit the effect scheduled
C8_Witness ==
  /\ ScenarioC
  /\ Quiescent
  /\ lastFired.trigger = "commit"
  /\ lastFired.req = 2
  /\ delayedStep = reqLog[2].step

(* C9, as claimed: on first mount no fade cycle is triggered, whatever the
   initial currentStep: visibility stays 1 and no timer is scheduled. *)
C9_Original ==
  (nreq = 0 /\ ndur = 0) => (opacity = 1 /\ timers = << >> /\ created = 0)

\* x is an index of the list
ValidIndex(components, x) ==
  x % 2 = 0 /\ x >= 0 /\ x \div 2 < Len(components)

ItemAt(components, x) == components[(x \div 2) + 1]

(* C10: the output holds exactly the item at index displayed step when that
   is a valid index of the items, and nothing otherwise; the item at the
   requested currentStep is not rendered before its commit. *)
C10_RenderedItem ==
  \A components \in ComponentLists :
    /\ ValidIndex(components, delayedStep) =>
          Rendered(components) = <<ItemAt(components, delayedStep)>>
    /\ ~ValidIndex(components, delayedStep) => Rendered(components) = << >>
    /\ (currentStep # delayedStep /\ ValidIndex(components, currentStep)) =>
          \A k \in 1..Len(Rendered(components)) :
             Rendered(components)[k] # ItemAt(components, currentStep)

\* C10: during a fade the old item is shown while the requested one is a
\* valid index too, and with the empty list nothing is shown
C10_Witness ==
  /\ currentStep # delayedStep
  /\ timers # << >>
  /\ opacity = 0
  /\ ValidIndex(<<"A", "B">>, delayedStep)
  /\ ValidIndex(<<"A", "B">>, currentStep)
  /\ Rendered(<<"A", "B">>) = <<ItemAt(<<"A", "B">>, delayedStep)>>
  /\ Rendered(<< >>) = << >>

(* C11, as claimed: with a zero or negative transition duration a step change
   transitions instantly: the delayed commit is scheduled with a wait of
   zero rather than a positive delay. *)
C11_Original ==
  \A i \in 1..Len(timers) :
    (timers[i].dur.given /\ timers[i].dur.ms <= 0) => timers[i].wait = 0

(* C12: when the duration is omitted the total is 1000 ms, so the wait before
   the commit and the fade of the opacity are 500 ms each; when a positive
   duration D is supplied the wait before the commit is exactly D/2. *)
C12_HalfDurationWait ==
  /\ \A i \in 1..Len(timers) :
       /\ ~timers[i].dur.given => timers[i].wait = 500
       /\ (timers[i].dur.given /\ timers[i].dur.ms > 0) =>
             2 * timers[i].wait = timers[i].dur.ms
       /\ timers[i].elapsed <= timers[i].wait
  /\ ~transitionDuration.given => opacityTransitionMs = 500
  /\ (transitionDuration.given /\ transitionDuration.ms > 0) =>
        2 * opacityTransitionMs = transitionDuration.ms
  /\ (lastFired.id # 0 /\ InContract(lastFired.dur)) =>
        2 * lastFired.elapsed = TotalDuration(lastFired.dur)

\* C12: a commit scheduled under the omitted duration has fired after 500 ms,
\* and one scheduled under the duration 4 is 1 ms into its wait of 2 ms
C12_Witness ==
  /\ lastFired.id # 0
  /\ ~lastFired.dur.given
  /\ lastFired.elapsed = 500
  /\ Len(timers) = 1
  /\ timers[1].dur = Given(4)
  /\ timers[1].wait = 2
  /\ timers[1].elapsed = 1

\* an older commit is about to fire after a newer request was received, and
\* its step is not the requested one any more
StaleCommitDue ==
  /\ pc = "idle"
  /\ ~effectPending
  /\ DueIndexes # {}
  /\ timers[FirstDue].req < nreq
  /\ timers[FirstDue].step # currentStep

(* C13: rapid successive step changes reach a glitch state: an older commit
   that was not cancelled fires after a newer request was received and
   leaves the displayed step at its stale value, different from the latest
   currentStep, while visibility is 1. *)
C13_StaleCommitGlitch ==
  [][(StaleCommitDue /\ Len(timers') < Len(timers)) =>
       /\ delayedStep' = timers[FirstDue].step
       /\ delayedStep' # currentStep'
       /\ batching => opacity' = 1]_vars

\* C13: the glitch state, as rendered when the stale commit of the first of
\* two requests has fired
C13_Witness ==
  /\ nreq = 2
  /\ lastFired.req = 1
  /\ lastFired.trigger = "step"
  /\ delayedStep = lastFired.step
  /\ delayedStep # currentStep
  /\ delayedStep # lastFired.d0
  /\ opacity = 1
  /\ pc = "idle"

(* C14: a received currentStep equal to the displayed step is a complete
   no-op in every reachable state: the displayed step, visibility (0 or 1)
   and the pending delayed commits are left unchanged; a commit that is
   already pending is neither cancelled nor altered. *)
C14_EqualStepNoOp ==
  [][(effectPending /\ trigger = "step" /\ currentStep = delayedStep) =>
       /\ delayedStep' = delayedStep
       /\ opacity' = opacity
       /\ timers' = timers
       /\ pc' = pc]_vars

\* C14: an equal step was received while one commit was waiting, and that
\* commit has since fired after its own unaltered wait
C14_Witness ==
  /\ nreq = 2
  /\ ndur = 0
  /\ reqLog[2].step = reqLog[2].ds
  /\ reqLog[2].pending = 1
  /\ ~reqLog[2].due
  /\ lastFired.req = 1
  /\ lastFired.trigger = "step"
  /\ lastFired.wait > 0
  /\ lastFired.elapsed = lastFired.wait
  /\ delayedStep = lastFired.step

(* C15: the effect re-runs whenever the displayed step changes: when a firing
   commit changes the displayed step to a value different from currentStep,
   a new fade cycle toward currentStep starts without any new request
   (visibility 0, one new delayed commit for currentStep); when the
   committed value equals currentStep nothing further is scheduled. *)
C15_EffectRerunsOnCommit ==
  /\ [][(Len(timers') < Len(timers) /\ delayedStep' # delayedStep) =>
          (effectPending' /\ trigger' = "commit")]_vars
  /\ [][(effectPending /\ trigger = "commit" /\ pc = "idle") =>
          /\ nreq' = nreq
          /\ ndur' = ndur
          /\ IF currentStep # delayedStep
               THEN /\ opacity' = 0
                    /\ Len(timers') = Len(timers) + 1
                    /\ SubSeq(timers', 1, Len(timers)) = timers
                    /\ timers'[Len(timers')].step = currentStep
                    /\ timers'[Len(timers')].elapsed = 0
               ELSE /\ timers' = timers
                    /\ created' = created
                    /\ opacity' = opacity]_vars

\* C15: a commit displayed a step that is not the requested one, and the
\* only commit now pending is the one the effect scheduled for currentStep
C15_Witness ==
  /\ ~effectPending
  /\ Len(timers) = 1
  /\ timers[1].trigger = "commit"
  /\ timers[1].step = currentStep
  /\ lastFired.trigger = "step"
  /\ delayedStep = lastFired.step
  /\ delayedStep # currentStep
  /\ opacity = 0

(* C16: in every state in which the effect has processed the latest props, a
   displayed step different from currentStep implies that a pending delayed
   commit targets currentStep; when no delayed commit is pending the
   displayed step equals currentStep. *)
C16_TargetPending ==
  ~effectPending =>
    /\ (delayedStep # currentStep) =>
          \E i \in 1..Len(timers) : timers[i].step = currentStep
    /\ (timers = << >>) => (delayedStep = currentStep)

\* C16: two commits are pending, the older one for a step that is no longer
\* requested and the newer one for currentStep
C16_Witness ==
  /\ ~effectPending
  /\ pc = "idle"
  /\ delayedStep # currentStep
  /\ Len(timers) = 2
  /\ timers[1].step # currentStep
  /\ timers[1].step # delayedStep
  /\ timers[2].step = currentStep

(* C17: the component is never stuck invisible: visibility 0 implies that a
   delayed commit is still pending (waiting, or between its two updates),
   so visibility returns to 1 once the timers fire; when no delayed commit
   is pending visibility is 1. *)
C17_NeverStuckInvisible ==
  /\ [](opacity = 0 => (timers # << >> \/ pc = "commit"))
  /\ ((opacity = 0) ~> (opacity = 1))

\* C17: every commit has fired after more than one fade, and the component
\* is visible again
C17_Witness ==
  /\ Quiescent
  /\ opacity = 1
  /\ created >= 2
  /\ lastFired.id = created
  /\ fadedFor = 0

\* pending commits that target another step than currentStep
StaleCount ==
  Cardinality({i \in 1..Len(timers) : timers[i].step # currentStep})

\* an upper bound of the commits still to fire if no prop changes: the
\* pending ones, one corrective commit for each stale one, and the one
\* the pending effect is going to schedule
CommitsToCome ==
  Len(timers) + StaleCount
    + (IF effectPending /\ currentStep # delayedStep THEN 1 ELSE 0)

(* C18: once currentStep stops changing the system quiesces: finitely many
   further delayed commits are scheduled, because a commit of a stale step
   schedules at most one corrective commit, targeting currentStep, and a
   commit of currentStep schedules none. *)
C18_Quiesces ==
  /\ [][(nreq' = nreq /\ ndur' = ndur) =>
          /\ CommitsToCome' <= CommitsToCome
          /\ (Len(timers') < Len(timers)) => (CommitsToCome' < CommitsToCome)]_vars
  /\ [][(created' > created /\ trigger = "commit") =>
          /\ created' = created + 1
          /\ lastFired.step # currentStep
          /\ timers'[Len(timers')].step = currentStep]_vars
  /\ <>[]Quiescent

\* C18: after two requests a stale commit, its corrective commit and the
\* commit of currentStep have all fired, and nothing is left
C18_Witness ==
  /\ Quiescent
  /\ nreq = 2
  /\ created >= 3
  /\ lastFired.trigger = "commit"
  /\ lastFired.step = currentStep
  /\ reqLog[1].ds # currentStep
  /\ reqLog[1].step # currentStep
  /\ delayedStep = currentStep

====
